---------------------------- MODULE Spec2Model ----------------------------
(***************************************************************************)
(* Clock counter management of CellOS (src/arch/x64/clockcounter.c): the   *)
(* registry of clock counters, the selection of the global clock counter,  *)
(* and the wall clock advanced from samples of the global counter.         *)
(*                                                                         *)
(* Integers of the model checker are 32 bits wide, so a nanosecond count   *)
(* (abstime_t) v is kept as the record [sec |-> v \div 10^9,               *)
(* nsec |-> v % 10^9]; a negative count has a negative sec.                *)
(* A raw counter value is kept the same way, as [hi, lo]. The PM timer is  *)
(* 24 or 32 bits wide, as the FADT of the platform says                    *)
(* (ACPI_FADT_32BIT_TIMER): every specification starts on either platform, *)
(* and the register, the durations between samples and the descriptor     *)
(* pm_timer_enable fills follow that width. The frequency is the 3,600,000 *)
(* ticks per second of the comment in pm_timer_enable.                     *)
(*                                                                         *)
(* The specifications share the state. In Spec (boot, registry,            *)
(* selection) and SpecClock (the wall clock over the running PM timer) one *)
(* context makes the calls, one after the other:                           *)
(* clockcounter_subsystem_init, select_global_clockcounter and do_time run *)
(* statement by statement, a call that is one critical section or one      *)
(* sample of the counter is one step. In SpecLock (the registry calls),    *)
(* SpecRace (the advancement calls over the running counter) and           *)
(* SpecSwitch (boot and the selection against clockcounter_add and the     *)
(* advancement calls) two contexts run the calls statement by statement,   *)
(* the registry spinlock between them.                                     *)
(***************************************************************************)
EXTENDS Integers, Sequences, FiniteSets, TLC

VARIABLES
    clockcounter_list,       \* the registry: sequence of clock counters
    global_clockcounter,     \* the active clock counter, or NULL
    clockcounter_pm_timer,   \* the descriptor fields pm_timer_enable writes
    counter_latest_read,     \* per counter: the last raw sample stored
    enabled,                 \* per counter: counter_enable called last (history)
    real_wall_time,          \* [tv_sec, tv_nsec]
    hw_ticks,                \* the raw value of the PM timer register
    fadt_32bit_timer,        \* AcpiGbl_FADT.Flags & ACPI_FADT_32BIT_TIMER is set
    since_sample,            \* per counter: ticks since it was last sampled, -1 if never
    since_good,              \* per counter: ticks since its last successful sample, -1 if never
    wall_set,                \* real_wall_time_init has run
    crashed,                 \* a call through a NULL function pointer was made
    ret,                     \* what the last call gave its caller
    nadv,                    \* number of hardware advances taken
    ncalls,                  \* number of advancement calls made
    clockcounter_list_lock,  \* the context that holds the spinlock, or FREE
    pc,                      \* per context: where it is in the call it makes
    loc                      \* per context: the locals of the call it makes

vars == <<clockcounter_list, global_clockcounter, clockcounter_pm_timer,
          counter_latest_read, enabled, real_wall_time, hw_ticks,
          fadt_32bit_timer,
          since_sample, since_good, wall_set, crashed, ret, nadv, ncalls,
          clockcounter_list_lock, pc, loc>>

(* What the calls made as one step leave alone: the contexts that run     *)
(* step by step.                                                          *)
concVars == <<clockcounter_list_lock, pc, loc>>

-----------------------------------------------------------------------------
(* Bounds of the model *)

MaxList == 3
MaxAdvances == 2
MaxCalls == 3
MaxConcCalls == 2
MaxSame == 1
MaxLate == 1

(* Program constants *)

NSECS_PER_SEC == 1000000000
USECS_PER_SEC == 1000000
NSECS_PER_USEC == 1000
PM_TIMER_FREQUENCY == 3600000
FIXUP_SECONDS == 2

NULL == "NULL"
FREE == "free"
IDLE == "idle"
OK == "OK"
ENODEV == "ENODEV"
NONE == "none"

PMT == "PMT"            \* clockcounter_pm_timer
PMC == "PMC"            \* clockcounter_pm_counter
Sources == {PMT, PMC, "S1000", "S10000", "T100", "P277"}
ClockSources == {PMT}
ConcSources == {PMT, PMC}
BootSources == {"S1000"}

(* The execution contexts that call into the module at the same time *)
Contexts == {"c1", "c2"}

(* The static descriptor of the counters other than the PM timer. *)
StaticResolution(s) ==
    CASE s = PMC -> 100
      [] s = "S1000" -> 1000
      [] s = "S10000" -> 10000
      [] s = "T100" -> 100
      [] s = "P277" -> 277
      [] OTHER -> 0

HasEnable(s) == s # "T100"
HasDisable(s) == s # "S10000"

(* Raw counter values and tick counts. The counter is 24 or 32 bits wide   *)
(* and the integers of the model checker end at 2^31 - 1, so a value v is *)
(* kept as the record [hi |-> v \div 10^9, lo |-> v % 10^9]; a negative   *)
(* difference has a negative hi.                                          *)
Ticks(h, l) == [hi |-> h + (l \div NSECS_PER_SEC), lo |-> l % NSECS_PER_SEC]
TicksZero == [hi |-> 0, lo |-> 0]
TicksLT(a, b) == a.hi < b.hi \/ (a.hi = b.hi /\ a.lo < b.lo)
TicksAdd(a, b) == Ticks(a.hi + b.hi, a.lo + b.lo)
TicksSub(a, b) == Ticks(a.hi - b.hi, a.lo - b.lo)

(* The counter wraps at 2^32 = 4 * 10^9 + 294967296 where the FADT has    *)
(* ACPI_FADT_32BIT_TIMER set, at 2^24 where it has not.                   *)
CounterWrap == IF fadt_32bit_timer THEN Ticks(4, 294967296) ELSE Ticks(0, 2 ^ 24)

(* v modulo the width of the counter, for v within one wrap of its range *)
TicksMod(v) ==
    IF v.hi < 0 THEN TicksAdd(v, CounterWrap)
    ELSE IF TicksLT(v, CounterWrap) THEN v
    ELSE TicksSub(v, CounterWrap)

(* Raw register values at boot, and the steps the hardware counter takes. *)
BootTicks == {TicksSub(CounterWrap, Ticks(0, 2))}
HwDeltas == {3, 8000000}
ConcDeltas == {1}
RtcTimes == {1700000000}
Garbage == {[tv_sec |-> 0, tv_nsec |-> 0], [tv_sec |-> 7, tv_nsec |-> 123456789]}

-----------------------------------------------------------------------------
(* Nanosecond counts as [sec, nsec] *)

Abs(s, n) == [sec |-> s + (n \div NSECS_PER_SEC), nsec |-> n % NSECS_PER_SEC]
AbsZero == [sec |-> 0, nsec |-> 0]
AbsLE(a, b) == a.sec < b.sec \/ (a.sec = b.sec /\ a.nsec <= b.nsec)
AbsLT(a, b) == a.sec < b.sec \/ (a.sec = b.sec /\ a.nsec < b.nsec)
AbsAdd(a, b) == Abs(a.sec + b.sec, a.nsec + b.nsec)
AbsSub(a, b) == Abs(a.sec - b.sec, a.nsec - b.nsec)

(* k * 2^32 nanoseconds; 2^32 = 4 * 10^9 + 294967 * 10^3 + 296 *)
TwoTo32Times(k) ==
    LET a == k * 294967
    IN  Abs(4 * k + (a \div USECS_PER_SEC), (a % USECS_PER_SEC) * 1000 + k * 296)

(* (time_us * 1000) in 32-bit unsigned arithmetic, as a nanosecond count: *)
(* the product less the whole multiples of 2^32 in it, their number k     *)
(* within one of time_us \div 4294968 for a 32-bit time_us.               *)
MulUint32By1000(time_us) ==
    LET full == Abs(time_us \div USECS_PER_SEC,
                    (time_us % USECS_PER_SEC) * NSECS_PER_USEC)
        low == time_us \div 4294968
        k == CHOOSE k \in low .. (low + 1) :
                 /\ AbsLE(TwoTo32Times(k), full)
                 /\ AbsLT(full, TwoTo32Times(k + 1))
    IN  AbsSub(full, TwoTo32Times(k))

-----------------------------------------------------------------------------
(* The PM timer driver *)

(* AcpiGetTimer: the raw register value; the firmware call may fail. *)
AcpiGetTimer(ok) == [status |-> ok, now |-> hw_ticks]

(* The whole microseconds of d ticks, d * USECS_PER_SEC /                *)
(* PM_TIMER_FREQUENCY rounded down, computed without leaving 32 bits:    *)
(* the ratio is 5/18, and d = 18 * (hi * 55555555) + (10 * hi + lo), as  *)
(* 10^9 = 18 * 55555555 + 10.                                            *)
MicrosecondsOfTicks(d) ==
    LET num == USECS_PER_SEC \div 200000
        den == PM_TIMER_FREQUENCY \div 200000
        n == (NSECS_PER_SEC % den) * d.hi + d.lo
    IN  num * (d.hi * (NSECS_PER_SEC \div den) + (n \div den))
        + (num * (n % den)) \div den

(* AcpiGetTimerDuration: the microseconds between two samples taken in   *)
(* temporal order, one wrap of the 24-bit or 32-bit counter accounted    *)
(* for.                                                                  *)
AcpiGetTimerDuration(StartTicks, EndTicks) ==
    LET DeltaTicks == TicksMod(TicksSub(EndTicks, StartTicks))
    IN  MicrosecondsOfTicks(DeltaTicks)

pm_timer_enable(pm) ==
    [pm EXCEPT !.counter_bits = IF fadt_32bit_timer THEN 32 ELSE 24,
               !.counter_frequency_hz = PM_TIMER_FREQUENCY,
               !.counter_resolution_ns = NSECS_PER_SEC \div PM_TIMER_FREQUENCY,
               !.counter_fixup_period = Abs(FIXUP_SECONDS, 0)]

pm_timer_disable(pm) == pm

pm_timer_counter_read(ok) ==
    LET r == AcpiGetTimer(ok)
    IN  IF ~r.status THEN TicksZero ELSE r.now

(* Variant: the samples are subtracted as signed numbers, the wrap of the  *)
(* counter not accounted for.                                             *)
pm_timer_counter_time_elapsed_signed(t1, t2, dok) ==
    LET us == MicrosecondsOfTicks(TicksSub(t2, t1))
    IN  IF ~dok THEN AbsZero
        ELSE Abs(us \div USECS_PER_SEC, (us % USECS_PER_SEC) * NSECS_PER_USEC)

(* Variant: the microseconds are returned as they are, not multiplied.    *)
pm_timer_counter_time_elapsed_us(t1, t2, dok) ==
    IF ~dok THEN AbsZero
    ELSE Abs(0, AcpiGetTimerDuration(t1, t2))

pm_timer_counter_time_elapsed(t1, t2, dok) ==
    IF ~dok THEN AbsZero
    ELSE MulUint32By1000(AcpiGetTimerDuration(t1, t2))

(* A counter other than the PM timer: it samples the same register and    *)
(* turns ticks into nanoseconds with its own resolution (a divisor of     *)
(* 10^9 for the counters that are sampled).                               *)
generic_counter_read == hw_ticks

generic_counter_time_elapsed(s, t1, t2) ==
    LET d == TicksMod(TicksSub(t2, t1))
        per == NSECS_PER_SEC \div StaticResolution(s)
    IN  Abs(d.hi * StaticResolution(s) + (d.lo \div per),
            (d.lo % per) * StaticResolution(s))

(* Dispatch through the descriptor's function pointers *)
counter_resolution_ns(s, pm) ==
    IF s = PMT THEN pm.counter_resolution_ns ELSE StaticResolution(s)

counter_read(s, ok) ==
    IF s = PMT THEN pm_timer_counter_read(ok) ELSE generic_counter_read

counter_time_elapsed(s, t1, t2, dok) ==
    IF s = PMT THEN pm_timer_counter_time_elapsed(t1, t2, dok)
    ELSE generic_counter_time_elapsed(s, t1, t2)

(* counter_enable() of s, on the descriptor and on the enabled history *)
counter_enable_pm(s, pm) == IF s = PMT THEN pm_timer_enable(pm) ELSE pm
counter_disable_pm(s, pm) == IF s = PMT THEN pm_timer_disable(pm) ELSE pm

-----------------------------------------------------------------------------
(* Collaborators: list, timespec *)

list_append(list, node) == Append(list, node)

list_remove(list, node) == SelectSeq(list, LAMBDA x : x # node)

InList(list, node) == \E i \in 1 .. Len(list) : list[i] = node

Occurrences(list, node) == Cardinality({i \in 1 .. Len(list) : list[i] = node})

timespec_add_ns(ts, ns) ==
    LET a == Abs(ts.tv_sec + ns.sec, ts.tv_nsec + ns.nsec)
    IN  [tv_sec |-> a.sec, tv_nsec |-> a.nsec]

timespec_to_abstime(ts) == Abs(ts.tv_sec, ts.tv_nsec)

WallAbs == Abs(real_wall_time.tv_sec, real_wall_time.tv_nsec)

-----------------------------------------------------------------------------
(* What a call gave its caller, with the samples it worked on *)

NoCall == [op |-> NONE, status |-> NONE, val |-> NONE, tc |-> NULL,
           last |-> TicksZero, now |-> TicksZero, rok |-> TRUE, dok |-> TRUE,
           gap |-> -1, good_gap |-> -1, added |-> AbsZero]

Plain(op, status, val) == [NoCall EXCEPT !.op = op, !.status = status, !.val = val]

(* The locals of a context that is in no call. boot is the call that     *)
(* clockcounter_subsystem_init has come to (0: the context is not in it). *)
(* snap, old, half and en are                                             *)
(* history: the registry when the scan began, the counter active when the *)
(* select began, whether the counter an advancement took was a candidate  *)
(* of a scan under way, whether it was enabled when sampled.              *)
NoLocals == [op |-> NONE, counter |-> NULL, timecounter |-> NULL,
             last |-> TicksZero, now |-> TicksZero, eplased |-> AbsZero,
             wall |-> [tv_sec |-> 0, tv_nsec |-> 0],
             sec |-> 0, nsec |-> 0, filled |-> {}, rok |-> TRUE, dok |-> TRUE,
             boot |-> 0,
             iter |-> 0, snap |-> <<>>, old |-> NULL,
             half |-> FALSE, en |-> TRUE]

Init ==
    /\ fadt_32bit_timer \in BOOLEAN
    /\ clockcounter_list = <<>>
    /\ global_clockcounter = NULL
    /\ clockcounter_pm_timer = [counter_bits |-> 0, counter_frequency_hz |-> 0,
                                counter_resolution_ns |-> 0,
                                counter_fixup_period |-> AbsZero]
    /\ counter_latest_read = [s \in Sources |-> TicksZero]
    /\ enabled = [s \in Sources |-> FALSE]
    /\ real_wall_time = [tv_sec |-> 0, tv_nsec |-> 0]
    /\ hw_ticks \in BootTicks
    /\ since_sample = [s \in Sources |-> -1]
    /\ since_good = [s \in Sources |-> -1]
    /\ wall_set = FALSE
    /\ crashed = FALSE
    /\ ret = NoCall
    /\ nadv = 0
    /\ ncalls = 0
    /\ clockcounter_list_lock = FREE
    /\ pc = [c \in Contexts |-> IDLE]
    /\ loc = [c \in Contexts |-> NoLocals]

clockVars == <<counter_latest_read, real_wall_time, hw_ticks, fadt_32bit_timer,
               since_sample,
               since_good, wall_set, nadv, ncalls>>

-----------------------------------------------------------------------------
(* The registry. clockcounter_add and clockcounter_remove made as one     *)
(* step are the statements between CLOCK_COUNTER_LIST_LOCK and            *)
(* CLOCK_COUNTER_LIST_UNLOCK; the statements one by one, and those of     *)
(* select_global_clockcounter and clockcounter_subsystem_init, which are  *)
(* not under one lock, are further down.                                  *)

clockcounter_add(counter) ==
    /\ ~crashed
    /\ Len(clockcounter_list) < MaxList
    /\ clockcounter_list' = list_append(clockcounter_list, counter)
    /\ IF HasEnable(counter)
       THEN /\ enabled' = [enabled EXCEPT ![counter] = TRUE]
            /\ clockcounter_pm_timer' = counter_enable_pm(counter, clockcounter_pm_timer)
       ELSE UNCHANGED <<enabled, clockcounter_pm_timer>>
    /\ ret' = Plain("clockcounter_add", OK, counter)
    /\ UNCHANGED <<global_clockcounter, crashed>>
    /\ UNCHANGED clockVars
    /\ UNCHANGED concVars

(* Variant: the counter that is taken out of the registry is also        *)
(* switched off.                                                         *)
clockcounter_remove_disabling(counter) ==
    /\ ~crashed
    /\ clockcounter_list' = list_remove(clockcounter_list, counter)
    /\ enabled' = IF HasDisable(counter) THEN [enabled EXCEPT ![counter] = FALSE]
                  ELSE enabled
    /\ ret' = Plain("clockcounter_remove", OK, counter)
    /\ UNCHANGED <<global_clockcounter, clockcounter_pm_timer, crashed>>
    /\ UNCHANGED clockVars
    /\ UNCHANGED concVars

clockcounter_remove(counter) ==
    /\ ~crashed
    /\ clockcounter_list' = list_remove(clockcounter_list, counter)
    /\ ret' = Plain("clockcounter_remove", OK, counter)
    /\ UNCHANGED <<global_clockcounter, clockcounter_pm_timer, enabled, crashed>>
    /\ UNCHANGED clockVars
    /\ UNCHANGED concVars

(* The scan of select_global_clockcounter: the candidate after the list *)
RECURSIVE ScanBest(_, _, _)
ScanBest(list, candidate, pm) ==
    IF list = <<>> THEN candidate
    ELSE LET best == Head(list)
         IN  ScanBest(Tail(list),
                      IF counter_resolution_ns(best, pm)
                             < counter_resolution_ns(candidate, pm)
                      THEN best ELSE candidate,
                      pm)

(* select_global_clockcounter run from entry to return on the state      *)
(* (list, global, pm, enabled) with no other context running: the state  *)
(* it leaves, and whether it returned. The states a specification starts *)
(* in are made with it.                                                  *)
SelectResult(list, global, pm, en) ==
    LET disabling == global # NULL /\ HasDisable(global)
        en1 == IF disabling THEN [en EXCEPT ![global] = FALSE] ELSE en
        pm1 == IF disabling THEN counter_disable_pm(global, pm) ELSE pm
        winner == ScanBest(list, PMT, pm1)
    IN  IF HasEnable(winner)
        THEN [global |-> winner, pm |-> counter_enable_pm(winner, pm1),
              enabled |-> [en1 EXCEPT ![winner] = TRUE], returned |-> TRUE]
        ELSE [global |-> winner, pm |-> pm1, enabled |-> en1, returned |-> FALSE]

-----------------------------------------------------------------------------
(* The wall clock *)

real_wall_time_init(rtc) ==
    /\ ~crashed
    /\ real_wall_time' = [tv_sec |-> rtc, tv_nsec |-> 0]
    /\ wall_set' = TRUE
    /\ ret' = Plain("real_wall_time_init", NONE, NONE)
    /\ UNCHANGED <<clockcounter_list, global_clockcounter, clockcounter_pm_timer,
                   enabled, crashed, counter_latest_read, hw_ticks, fadt_32bit_timer, since_sample,
                   since_good, nadv, ncalls>>
    /\ UNCHANGED concVars

(* The hardware counter runs on; no counter that was sampled is left      *)
(* unread for a whole wrap period.                                        *)
HwAdvance(d) ==
    /\ ~crashed
    /\ nadv < MaxAdvances
    /\ \A s \in Sources : TicksLT(Ticks(0, since_sample[s] + d), CounterWrap)
    /\ hw_ticks' = TicksMod(TicksAdd(hw_ticks, Ticks(0, d)))
    /\ since_sample' = [s \in Sources |->
                           IF since_sample[s] < 0 THEN -1 ELSE since_sample[s] + d]
    /\ since_good' = [s \in Sources |->
                         IF since_good[s] < 0 THEN -1 ELSE since_good[s] + d]
    /\ nadv' = nadv + 1
    /\ UNCHANGED <<clockcounter_list, global_clockcounter, clockcounter_pm_timer,
                   enabled, crashed, counter_latest_read, real_wall_time,
                   fadt_32bit_timer, wall_set, ret, ncalls>>
    /\ UNCHANGED concVars

(* Sample, delta, accumulate: the sequence the three advancement paths    *)
(* share. latest is timecounter's counter_latest_read, wall the wall      *)
(* clock; rok and dok say whether the firmware calls succeed.             *)
SampleDeltaAccumulate(timecounter, latest, wall, rok, dok) ==
    LET now == counter_read(timecounter, rok)
        eplased == counter_time_elapsed(timecounter, latest, now, dok)
    IN  [last |-> latest, now |-> now, eplased |-> eplased,
         wall |-> timespec_add_ns(wall, eplased)]

(* The firmware calls, which may fail, are made for the PM timer only *)
FirmwareOutcomes(timecounter) == IF timecounter = PMT THEN BOOLEAN ELSE {TRUE}

(* What the stack slot of get_now_nanosecond's local holds at entry; the   *)
(* slot is written over when there is a counter to sample.                *)
StackSlots(timecounter) ==
    IF timecounter = NULL THEN Garbage ELSE {[tv_sec |-> 0, tv_nsec |-> 0]}

(* The record of an advancement call *)
Called(op, status, val, tc, r, rok, dok) ==
    [op |-> op, status |-> status, val |-> val, tc |-> tc,
     last |-> r.last, now |-> r.now,
     rok |-> rok \/ tc # PMT, dok |-> dok \/ tc # PMT,
     gap |-> since_sample[tc], good_gap |-> since_good[tc], added |-> r.eplased]

Sampled(tc, rok) ==
    /\ since_sample' = [since_sample EXCEPT ![tc] = 0]
    /\ since_good' = IF rok \/ tc # PMT THEN [since_good EXCEPT ![tc] = 0]
                     ELSE since_good

real_wall_time_regular_update(rok, dok) ==
    /\ ~crashed
    /\ ncalls < MaxCalls
    /\ ncalls' = ncalls + 1
    /\ IF global_clockcounter = NULL
       THEN /\ ret' = Plain("real_wall_time_regular_update", NONE, NONE)
            /\ UNCHANGED <<counter_latest_read, real_wall_time, since_sample, since_good>>
       ELSE LET timecounter == global_clockcounter
                r == SampleDeltaAccumulate(timecounter,
                         counter_latest_read[timecounter], real_wall_time, rok, dok)
            IN  /\ counter_latest_read' =
                       [counter_latest_read EXCEPT ![timecounter] = r.now]
                /\ real_wall_time' = r.wall
                /\ Sampled(timecounter, rok)
                /\ ret' = Called("real_wall_time_regular_update", NONE, NONE,
                                 timecounter, r, rok, dok)
    /\ UNCHANGED <<clockcounter_list, global_clockcounter, clockcounter_pm_timer,
                   enabled, crashed, hw_ticks, fadt_32bit_timer, wall_set, nadv>>
    /\ UNCHANGED concVars

gettimeofday(rok, dok) ==
    /\ ~crashed
    /\ ncalls < MaxCalls
    /\ ncalls' = ncalls + 1
    /\ IF global_clockcounter = NULL
       THEN /\ ret' = Plain("gettimeofday", ENODEV, NONE)
            /\ UNCHANGED <<counter_latest_read, real_wall_time, since_sample, since_good>>
       ELSE LET timecounter == global_clockcounter
                r == SampleDeltaAccumulate(timecounter,
                         counter_latest_read[timecounter], real_wall_time, rok, dok)
            IN  /\ counter_latest_read' =
                       [counter_latest_read EXCEPT ![timecounter] = r.now]
                /\ real_wall_time' = r.wall
                /\ Sampled(timecounter, rok)
                /\ ret' = Called("gettimeofday", OK,
                                 [tv_sec |-> r.wall.tv_sec,
                                  tv_usec |-> r.wall.tv_nsec \div NSECS_PER_USEC],
                                 timecounter, r, rok, dok)
    /\ UNCHANGED <<clockcounter_list, global_clockcounter, clockcounter_pm_timer,
                   enabled, crashed, hw_ticks, fadt_32bit_timer, wall_set, nadv>>
    /\ UNCHANGED concVars

getnstimeofday(rok, dok) ==
    /\ ~crashed
    /\ ncalls < MaxCalls
    /\ ncalls' = ncalls + 1
    /\ IF global_clockcounter = NULL
       THEN /\ ret' = Plain("getnstimeofday", ENODEV, NONE)
            /\ UNCHANGED <<counter_latest_read, real_wall_time, since_sample, since_good>>
       ELSE LET timecounter == global_clockcounter
                r == SampleDeltaAccumulate(timecounter,
                         counter_latest_read[timecounter], real_wall_time, rok, dok)
            IN  /\ counter_latest_read' =
                       [counter_latest_read EXCEPT ![timecounter] = r.now]
                /\ real_wall_time' = r.wall
                /\ Sampled(timecounter, rok)
                /\ ret' = Called("getnstimeofday", OK,
                                 [tv_sec |-> r.wall.tv_sec, tv_nsec |-> r.wall.tv_nsec],
                                 timecounter, r, rok, dok)
    /\ UNCHANGED <<clockcounter_list, global_clockcounter, clockcounter_pm_timer,
                   enabled, crashed, hw_ticks, fadt_32bit_timer, wall_set, nadv>>
    /\ UNCHANGED concVars

(* get_now_nanosecond: the result of getnstimeofday is not looked at; when *)
(* it fails, now is the caller's unset stack slot.                         *)
get_now_nanosecond(rok, dok, unset) ==
    /\ ~crashed
    /\ ncalls < MaxCalls
    /\ ncalls' = ncalls + 1
    /\ IF global_clockcounter = NULL
       THEN /\ ret' = Plain("get_now_nanosecond", NONE, timespec_to_abstime(unset))
            /\ UNCHANGED <<counter_latest_read, real_wall_time, since_sample, since_good>>
       ELSE LET timecounter == global_clockcounter
                r == SampleDeltaAccumulate(timecounter,
                         counter_latest_read[timecounter], real_wall_time, rok, dok)
            IN  /\ counter_latest_read' =
                       [counter_latest_read EXCEPT ![timecounter] = r.now]
                /\ real_wall_time' = r.wall
                /\ Sampled(timecounter, rok)
                /\ ret' = Called("get_now_nanosecond", NONE,
                                 timespec_to_abstime(r.wall),
                                 timecounter, r, rok, dok)
    /\ UNCHANGED <<clockcounter_list, global_clockcounter, clockcounter_pm_timer,
                   enabled, crashed, hw_ticks, fadt_32bit_timer, wall_set, nadv>>
    /\ UNCHANGED concVars

(* do_time, the shell command: gettimeofday, then getnstimeofday, the     *)
(* interrupts disabled around the two; it prints what they gave and       *)
(* returns 0. Each of the two calls reads the counter, which runs on      *)
(* between them.                                                          *)
TimeQuery(op, rok, dok) ==
    IF global_clockcounter = NULL
    THEN /\ ret' = Plain(op, ENODEV, NONE)
         /\ UNCHANGED <<counter_latest_read, real_wall_time, since_sample, since_good>>
    ELSE LET timecounter == global_clockcounter
             r == SampleDeltaAccumulate(timecounter,
                      counter_latest_read[timecounter], real_wall_time, rok, dok)
         IN  /\ counter_latest_read' =
                    [counter_latest_read EXCEPT ![timecounter] = r.now]
             /\ real_wall_time' = r.wall
             /\ Sampled(timecounter, rok)
             /\ ret' = Called(op, OK,
                              IF op = "gettimeofday"
                              THEN [tv_sec |-> r.wall.tv_sec,
                                    tv_usec |-> r.wall.tv_nsec \div NSECS_PER_USEC]
                              ELSE [tv_sec |-> r.wall.tv_sec,
                                    tv_nsec |-> r.wall.tv_nsec],
                              timecounter, r, rok, dok)

do_time_gettimeofday(c, rok, dok) ==
    /\ ~crashed
    /\ pc[c] = IDLE
    /\ ncalls + 2 <= MaxCalls
    /\ ncalls' = ncalls + 1
    /\ TimeQuery("gettimeofday", rok, dok)
    /\ pc' = [pc EXCEPT ![c] = "do_time_getnstimeofday"]
    /\ loc' = [loc EXCEPT ![c] = [NoLocals EXCEPT !.op = "do_time"]]
    /\ UNCHANGED <<clockcounter_list, global_clockcounter, clockcounter_pm_timer,
                   enabled, crashed, hw_ticks, fadt_32bit_timer, wall_set, nadv,
                   clockcounter_list_lock>>

do_time_getnstimeofday(c, rok, dok) ==
    /\ ~crashed
    /\ pc[c] = "do_time_getnstimeofday"
    /\ ncalls' = ncalls + 1
    /\ TimeQuery("getnstimeofday", rok, dok)
    /\ pc' = [pc EXCEPT ![c] = "do_time_return"]
    /\ UNCHANGED <<clockcounter_list, global_clockcounter, clockcounter_pm_timer,
                   enabled, crashed, hw_ticks, fadt_32bit_timer, wall_set, nadv,
                   clockcounter_list_lock, loc>>

do_time_return(c) ==
    /\ ~crashed
    /\ pc[c] = "do_time_return"
    /\ pc' = [pc EXCEPT ![c] = IDLE]
    /\ loc' = [loc EXCEPT ![c] = NoLocals]
    /\ ret' = Plain("do_time", NONE, 0)
    /\ UNCHANGED <<clockcounter_list, global_clockcounter, clockcounter_pm_timer,
                   enabled, crashed, clockcounter_list_lock>>
    /\ UNCHANGED clockVars

-----------------------------------------------------------------------------
(* The calls step by step, for contexts that run at the same time. A step *)
(* is one access to the shared state; since_sample and since_good are not *)
(* kept by the steps.                                                     *)

registryVars == <<clockcounter_list, global_clockcounter, clockcounter_pm_timer,
                  enabled>>

(* spinlock_lock: the caller spins until the lock is free, then holds it  *)
spinlock_lock(c) ==
    /\ clockcounter_list_lock = FREE
    /\ clockcounter_list_lock' = c

spinlock_unlock(c) == clockcounter_list_lock' = FREE

At(c, label) == ~crashed /\ pc[c] = label
Goto(c, label) == pc' = [pc EXCEPT ![c] = label]

(* The calls clockcounter_subsystem_init makes, in their order *)
BootCalls == <<[op |-> "clockcounter_add", counter |-> PMT],
               [op |-> "clockcounter_add", counter |-> PMC],
               [op |-> "select_global_clockcounter", counter |-> NULL]>>

(* c is where op is called on counter: in no call, or at the call of it   *)
(* in clockcounter_subsystem_init.                                        *)
Calls(c, op, counter) ==
    /\ ~crashed
    /\ \/ pc[c] = IDLE
       \/ /\ pc[c] = "init_call"
          /\ BootCalls[loc[c].boot] = [op |-> op, counter |-> counter]

(* The locals at the entry of op *)
Enter(c, op) == [NoLocals EXCEPT !.op = op, !.boot = loc[c].boot]

(* The call returns r: to the caller of c, or into                        *)
(* clockcounter_subsystem_init, which looks at no result and goes on to   *)
(* its next call or, the select done, returns itself.                     *)
Return(c, r) ==
    IF loc[c].boot = 0
    THEN /\ pc' = [pc EXCEPT ![c] = IDLE]
         /\ loc' = [loc EXCEPT ![c] = NoLocals]
         /\ ret' = r
    ELSE IF loc[c].boot < Len(BootCalls)
    THEN /\ pc' = [pc EXCEPT ![c] = "init_call"]
         /\ loc' = [loc EXCEPT ![c] =
                       [NoLocals EXCEPT !.op = "clockcounter_subsystem_init",
                                        !.boot = loc[c].boot + 1]]
         /\ ret' = r
    ELSE /\ pc' = [pc EXCEPT ![c] = IDLE]
         /\ loc' = [loc EXCEPT ![c] = NoLocals]
         /\ ret' = Plain("clockcounter_subsystem_init", NONE, NONE)

(* clockcounter_subsystem_init: list_init, spinlock_init; the three calls *)
(* follow.                                                                *)
subsystem_init_list(c) ==
    /\ At(c, IDLE)
    /\ clockcounter_list' = <<>>
    /\ loc' = [loc EXCEPT ![c] =
                  [NoLocals EXCEPT !.op = "clockcounter_subsystem_init",
                                   !.boot = 1]]
    /\ Goto(c, "init_lock")
    /\ UNCHANGED <<global_clockcounter, clockcounter_pm_timer, enabled, crashed,
                   ret, clockcounter_list_lock>>
    /\ UNCHANGED clockVars

subsystem_init_lock(c) ==
    /\ At(c, "init_lock")
    /\ clockcounter_list_lock' = FREE
    /\ Goto(c, "init_call")
    /\ UNCHANGED <<registryVars, crashed, ret, loc>>
    /\ UNCHANGED clockVars

(* clockcounter_add *)
clockcounter_add_lock(c, counter) ==
    /\ Calls(c, "clockcounter_add", counter)
    /\ Len(clockcounter_list) < MaxList
    /\ spinlock_lock(c)
    /\ loc' = [loc EXCEPT ![c] = [Enter(c, "clockcounter_add")
                                      EXCEPT !.counter = counter]]
    /\ Goto(c, "add_append")
    /\ UNCHANGED <<registryVars, crashed, ret>>
    /\ UNCHANGED clockVars

clockcounter_add_append(c) ==
    /\ At(c, "add_append")
    /\ clockcounter_list' = list_append(clockcounter_list, loc[c].counter)
    /\ Goto(c, "add_enable")
    /\ UNCHANGED <<global_clockcounter, clockcounter_pm_timer, enabled, crashed,
                   ret, clockcounter_list_lock, loc>>
    /\ UNCHANGED clockVars

clockcounter_add_enable(c) ==
    /\ At(c, "add_enable")
    /\ IF HasEnable(loc[c].counter)
       THEN /\ enabled' = [enabled EXCEPT ![loc[c].counter] = TRUE]
            /\ clockcounter_pm_timer' =
                   counter_enable_pm(loc[c].counter, clockcounter_pm_timer)
       ELSE UNCHANGED <<enabled, clockcounter_pm_timer>>
    /\ Goto(c, "add_unlock")
    /\ UNCHANGED <<clockcounter_list, global_clockcounter, crashed, ret,
                   clockcounter_list_lock, loc>>
    /\ UNCHANGED clockVars

clockcounter_add_unlock(c) ==
    /\ At(c, "add_unlock")
    /\ spinlock_unlock(c)
    /\ Return(c, Plain("clockcounter_add", OK, loc[c].counter))
    /\ UNCHANGED <<registryVars, crashed>>
    /\ UNCHANGED clockVars

(* clockcounter_remove *)

(* Variant: the list is entered without the lock being taken. *)
clockcounter_remove_lock_skipped(c, counter) ==
    /\ At(c, IDLE)
    /\ loc' = [loc EXCEPT ![c] = [NoLocals EXCEPT !.op = "clockcounter_remove",
                                                  !.counter = counter]]
    /\ Goto(c, "remove_unlink")
    /\ UNCHANGED <<registryVars, crashed, ret, clockcounter_list_lock>>
    /\ UNCHANGED clockVars

clockcounter_remove_lock(c, counter) ==
    /\ At(c, IDLE)
    /\ spinlock_lock(c)
    /\ loc' = [loc EXCEPT ![c] = [NoLocals EXCEPT !.op = "clockcounter_remove",
                                                  !.counter = counter]]
    /\ Goto(c, "remove_unlink")
    /\ UNCHANGED <<registryVars, crashed, ret>>
    /\ UNCHANGED clockVars

clockcounter_remove_unlink(c) ==
    /\ At(c, "remove_unlink")
    /\ clockcounter_list' = list_remove(clockcounter_list, loc[c].counter)
    /\ Goto(c, "remove_unlock")
    /\ UNCHANGED <<global_clockcounter, clockcounter_pm_timer, enabled, crashed,
                   ret, clockcounter_list_lock, loc>>
    /\ UNCHANGED clockVars

clockcounter_remove_unlock(c) ==
    /\ At(c, "remove_unlock")
    /\ spinlock_unlock(c)
    /\ Return(c, Plain("clockcounter_remove", OK, loc[c].counter))
    /\ UNCHANGED <<registryVars, crashed>>
    /\ UNCHANGED clockVars

(* select_global_clockcounter *)

(* The test whether there is a counter to switch off; the lock is not     *)
(* held yet.                                                              *)
select_test(c) ==
    /\ Calls(c, "select_global_clockcounter", NULL)
    /\ loc' = [loc EXCEPT ![c] =
                  [Enter(c, "select_global_clockcounter")
                      EXCEPT !.old = global_clockcounter]]
    /\ IF global_clockcounter # NULL /\ HasDisable(global_clockcounter)
       THEN Goto(c, "select_disable")
       ELSE Goto(c, "select_lock")
    /\ UNCHANGED <<registryVars, crashed, ret, clockcounter_list_lock>>
    /\ UNCHANGED clockVars

(* The call of counter_disable: through the pointer that was tested, or   *)
(* through the global pointer read once more, as the build has it.        *)
select_disable(c) ==
    /\ At(c, "select_disable")
    /\ \E g \in {loc[c].old, global_clockcounter} :
           IF HasDisable(g)
           THEN /\ enabled' = [enabled EXCEPT ![g] = FALSE]
                /\ clockcounter_pm_timer' =
                       counter_disable_pm(g, clockcounter_pm_timer)
                /\ Goto(c, "select_lock")
                /\ UNCHANGED crashed
           ELSE /\ crashed' = TRUE
                /\ UNCHANGED <<enabled, clockcounter_pm_timer, pc>>
    /\ UNCHANGED <<clockcounter_list, global_clockcounter, ret,
                   clockcounter_list_lock, loc>>
    /\ UNCHANGED clockVars

select_lock(c) ==
    /\ At(c, "select_lock")
    /\ spinlock_lock(c)
    /\ Goto(c, "select_init")
    /\ UNCHANGED <<registryVars, crashed, ret, loc>>
    /\ UNCHANGED clockVars

select_init(c) ==
    /\ At(c, "select_init")
    /\ global_clockcounter' = PMT
    /\ loc' = [loc EXCEPT ![c].iter = 1, ![c].snap = clockcounter_list]
    /\ Goto(c, "select_scan")
    /\ UNCHANGED <<clockcounter_list, clockcounter_pm_timer, enabled, crashed,
                   ret, clockcounter_list_lock>>
    /\ UNCHANGED clockVars

(* Variant of the scan: a counter of equal resolution replaces the        *)
(* candidate.                                                             *)
select_scan_last_found(c) ==
    /\ At(c, "select_scan")
    /\ loc[c].iter <= Len(clockcounter_list)
    /\ LET best == clockcounter_list[loc[c].iter]
       IN  global_clockcounter' =
               IF counter_resolution_ns(best, clockcounter_pm_timer)
                      <= counter_resolution_ns(global_clockcounter,
                                               clockcounter_pm_timer)
               THEN best ELSE global_clockcounter
    /\ loc' = [loc EXCEPT ![c].iter = loc[c].iter + 1]
    /\ UNCHANGED <<clockcounter_list, clockcounter_pm_timer, enabled, crashed,
                   ret, clockcounter_list_lock, pc>>
    /\ UNCHANGED clockVars

select_scan(c) ==
    /\ At(c, "select_scan")
    /\ loc[c].iter <= Len(clockcounter_list)
    /\ LET best == clockcounter_list[loc[c].iter]
       IN  global_clockcounter' =
               IF counter_resolution_ns(best, clockcounter_pm_timer)
                      < counter_resolution_ns(global_clockcounter,
                                              clockcounter_pm_timer)
               THEN best ELSE global_clockcounter
    /\ loc' = [loc EXCEPT ![c].iter = loc[c].iter + 1]
    /\ UNCHANGED <<clockcounter_list, clockcounter_pm_timer, enabled, crashed,
                   ret, clockcounter_list_lock, pc>>
    /\ UNCHANGED clockVars

select_unlock(c) ==
    /\ At(c, "select_scan")
    /\ loc[c].iter > Len(clockcounter_list)
    /\ spinlock_unlock(c)
    /\ Goto(c, "select_load")
    /\ UNCHANGED <<registryVars, crashed, ret, loc>>
    /\ UNCHANGED clockVars

(* The global pointer is read for the call of counter_enable; the lock is *)
(* released.                                                              *)
select_load(c) ==
    /\ At(c, "select_load")
    /\ loc' = [loc EXCEPT ![c].counter = global_clockcounter]
    /\ Goto(c, "select_enable")
    /\ UNCHANGED <<registryVars, crashed, ret, clockcounter_list_lock>>
    /\ UNCHANGED clockVars

(* counter_enable of the counter that was read runs *)
select_enable(c) ==
    /\ At(c, "select_enable")
    /\ IF HasEnable(loc[c].counter)
       THEN /\ enabled' = [enabled EXCEPT ![loc[c].counter] = TRUE]
            /\ clockcounter_pm_timer' =
                   counter_enable_pm(loc[c].counter, clockcounter_pm_timer)
            /\ Goto(c, "select_return")
            /\ UNCHANGED crashed
       ELSE /\ crashed' = TRUE
            /\ UNCHANGED <<enabled, clockcounter_pm_timer, pc>>
    /\ UNCHANGED <<clockcounter_list, global_clockcounter, ret,
                   clockcounter_list_lock, loc>>
    /\ UNCHANGED clockVars

(* The global pointer is read once more for the value returned *)
select_return(c) ==
    /\ At(c, "select_return")
    /\ Return(c, Plain("select_global_clockcounter", OK, global_clockcounter))
    /\ UNCHANGED <<registryVars, crashed, clockcounter_list_lock>>
    /\ UNCHANGED clockVars

(* The advancement paths. get_now_nanosecond runs the statements of       *)
(* getnstimeofday and is not called here.                                 *)
Advancements == {"real_wall_time_regular_update", "gettimeofday",
                 "getnstimeofday", "get_now_nanosecond"}
Queries == {"gettimeofday", "getnstimeofday"}

AdvanceOps == {"real_wall_time_regular_update", "gettimeofday", "getnstimeofday"}

(* Another context's scan is under way and the global pointer holds a     *)
(* candidate that neither was active before that select nor will be the   *)
(* winner of it.                                                          *)
HalfSwitched(c) ==
    \E d \in Contexts \ {c} :
        /\ pc[d] = "select_scan"
        /\ global_clockcounter # loc[d].old
        /\ global_clockcounter
               # ScanBest(clockcounter_list, PMT, clockcounter_pm_timer)

advance_begin(c, op) ==
    /\ At(c, IDLE)
    /\ ncalls < MaxConcCalls
    /\ ncalls' = ncalls + 1
    /\ IF global_clockcounter = NULL
       THEN /\ ret' = Plain(op, IF op \in Queries THEN ENODEV ELSE NONE, NONE)
            /\ UNCHANGED <<pc, loc>>
       ELSE /\ loc' = [loc EXCEPT ![c] =
                          [NoLocals EXCEPT !.op = op,
                                           !.timecounter = global_clockcounter,
                                           !.half = HalfSwitched(c)]]
            /\ Goto(c, "advance_read_last")
            /\ UNCHANGED ret
    /\ UNCHANGED <<registryVars, crashed, clockcounter_list_lock,
                   counter_latest_read, real_wall_time, hw_ticks, fadt_32bit_timer, since_sample,
                   since_good, wall_set, nadv>>

advance_read_last(c) ==
    /\ At(c, "advance_read_last")
    /\ loc' = [loc EXCEPT ![c].last = counter_latest_read[loc[c].timecounter]]
    /\ Goto(c, "advance_sample")
    /\ UNCHANGED <<registryVars, crashed, ret, clockcounter_list_lock>>
    /\ UNCHANGED clockVars

(* counter_read() is called: the register is sampled *)
advance_sample(c) ==
    /\ At(c, "advance_sample")
    /\ \E rok \in FirmwareOutcomes(loc[c].timecounter) :
           loc' = [loc EXCEPT ![c].now = counter_read(loc[c].timecounter, rok),
                              ![c].rok = rok,
                              ![c].en = enabled[loc[c].timecounter]]
    /\ Goto(c, "advance_store")
    /\ UNCHANGED <<registryVars, crashed, ret, clockcounter_list_lock>>
    /\ UNCHANGED clockVars

(* The sample is stored in counter_latest_read *)
advance_store(c) ==
    /\ At(c, "advance_store")
    /\ counter_latest_read' =
           [counter_latest_read EXCEPT ![loc[c].timecounter] = loc[c].now]
    /\ Goto(c, "advance_elapsed")
    /\ UNCHANGED <<registryVars, crashed, ret, clockcounter_list_lock, loc,
                   real_wall_time, hw_ticks, fadt_32bit_timer, since_sample, since_good, wall_set,
                   nadv, ncalls>>

(* The second argument is read back from counter_latest_read, which       *)
(* another context may have written since; the build may also keep the    *)
(* sample it has just stored.                                             *)
advance_elapsed(c) ==
    /\ At(c, "advance_elapsed")
    /\ \E t2 \in {loc[c].now, counter_latest_read[loc[c].timecounter]},
          dok \in FirmwareOutcomes(loc[c].timecounter) :
           loc' = [loc EXCEPT ![c].eplased =
                      counter_time_elapsed(loc[c].timecounter, loc[c].last, t2, dok),
                              ![c].dok = dok]
    /\ Goto(c, "advance_add_read")
    /\ UNCHANGED <<registryVars, crashed, ret, clockcounter_list_lock>>
    /\ UNCHANGED clockVars

(* timespec_add_ns reads the wall clock, then writes the sum *)
advance_add_read(c) ==
    /\ At(c, "advance_add_read")
    /\ loc' = [loc EXCEPT ![c].wall = real_wall_time]
    /\ Goto(c, "advance_add_write")
    /\ UNCHANGED <<registryVars, crashed, ret, clockcounter_list_lock>>
    /\ UNCHANGED clockVars

advance_add_write(c) ==
    /\ At(c, "advance_add_write")
    /\ real_wall_time' = timespec_add_ns(loc[c].wall, loc[c].eplased)
    /\ IF loc[c].op \in Queries
       THEN Goto(c, "advance_fill")
       ELSE Goto(c, "advance_return")
    /\ UNCHANGED <<registryVars, crashed, ret, clockcounter_list_lock, loc,
                   counter_latest_read, hw_ticks, fadt_32bit_timer, since_sample, since_good,
                   wall_set, nadv, ncalls>>

(* A query fills tp from the wall clock: one read of tv_sec and one of    *)
(* tv_nsec, without a lock, in the order the build puts them.             *)
advance_fill_sec(c) ==
    /\ At(c, "advance_fill")
    /\ "tv_sec" \notin loc[c].filled
    /\ loc' = [loc EXCEPT ![c].sec = real_wall_time.tv_sec,
                          ![c].filled = loc[c].filled \cup {"tv_sec"}]
    /\ IF "tv_nsec" \in loc[c].filled
       THEN Goto(c, "advance_return") ELSE UNCHANGED pc
    /\ UNCHANGED <<registryVars, crashed, ret, clockcounter_list_lock>>
    /\ UNCHANGED clockVars

advance_fill_nsec(c) ==
    /\ At(c, "advance_fill")
    /\ "tv_nsec" \notin loc[c].filled
    /\ loc' = [loc EXCEPT ![c].nsec = real_wall_time.tv_nsec,
                          ![c].filled = loc[c].filled \cup {"tv_nsec"}]
    /\ IF "tv_sec" \in loc[c].filled
       THEN Goto(c, "advance_return") ELSE UNCHANGED pc
    /\ UNCHANGED <<registryVars, crashed, ret, clockcounter_list_lock>>
    /\ UNCHANGED clockVars

advance_return(c) ==
    /\ At(c, "advance_return")
    /\ LET op == loc[c].op
           val == CASE op = "gettimeofday" ->
                           [tv_sec |-> loc[c].sec,
                            tv_usec |-> loc[c].nsec \div NSECS_PER_USEC]
                    [] op = "getnstimeofday" ->
                           [tv_sec |-> loc[c].sec, tv_nsec |-> loc[c].nsec]
                    [] OTHER -> NONE
       IN  Return(c, Called(op, IF op \in Queries THEN OK ELSE NONE, val,
                            loc[c].timecounter, loc[c], loc[c].rok, loc[c].dok))
    /\ UNCHANGED <<registryVars, crashed, clockcounter_list_lock>>
    /\ UNCHANGED clockVars

-----------------------------------------------------------------------------
(* Specifications *)

(* One execution context *)
Main == "c1"

(* No context is in a call *)
Idle == \A c \in Contexts : pc[c] = IDLE

(* Boot, the registry and the selection, over all the counters, in one    *)
(* execution context: a call is made when the call before it has          *)
(* returned. clockcounter_subsystem_init and select_global_clockcounter   *)
(* run statement by statement.                                            *)
Next ==
    \/ Idle /\ \E rtc \in RtcTimes : real_wall_time_init(rtc)
    \/ Idle /\ \E s \in Sources : clockcounter_add(s)
    \/ Idle /\ \E s \in Sources : clockcounter_remove(s)
    \/ subsystem_init_list(Main)
    \/ subsystem_init_lock(Main)
    \/ pc[Main] = "init_call" /\ \E s \in ConcSources : clockcounter_add_lock(Main, s)
    \/ clockcounter_add_append(Main)
    \/ clockcounter_add_enable(Main)
    \/ clockcounter_add_unlock(Main)
    \/ select_test(Main)
    \/ select_disable(Main)
    \/ select_lock(Main)
    \/ select_init(Main)
    \/ select_scan(Main)
    \/ select_unlock(Main)
    \/ select_load(Main)
    \/ select_enable(Main)
    \/ select_return(Main)

Spec == Init /\ [][Next]_vars

(* The wall clock after real_wall_time_init, in one execution context:    *)
(* the PM timer is registered, at most MaxSame times over, and taken out  *)
(* by hand, pm_counter comes with clockcounter_subsystem_init; a registry *)
(* call begins after at most MaxLate advancement calls. The counter runs  *)
(* on at any time, between the two samples of do_time too.                *)
InitClock ==
    \E rtc \in RtcTimes :
        /\ fadt_32bit_timer \in BOOLEAN
        /\ clockcounter_list = <<>>
        /\ global_clockcounter = NULL
        /\ clockcounter_pm_timer = [counter_bits |-> 0, counter_frequency_hz |-> 0,
                                    counter_resolution_ns |-> 0,
                                    counter_fixup_period |-> AbsZero]
        /\ counter_latest_read = [s \in Sources |-> TicksZero]
        /\ enabled = [s \in Sources |-> FALSE]
        /\ real_wall_time = [tv_sec |-> rtc, tv_nsec |-> 0]
        /\ hw_ticks \in BootTicks
        /\ since_sample = [s \in Sources |-> -1]
        /\ since_good = [s \in Sources |-> -1]
        /\ wall_set = TRUE
        /\ crashed = FALSE
        /\ ret = NoCall
        /\ nadv = 0
        /\ ncalls = 0
        /\ clockcounter_list_lock = FREE
        /\ pc = [c \in Contexts |-> IDLE]
        /\ loc = [c \in Contexts |-> NoLocals]

NextClock ==
    \/ Idle /\ \E rtc \in RtcTimes : real_wall_time_init(rtc)
    \/ Idle /\ ncalls <= MaxLate /\
           \E s \in ClockSources :
               Occurrences(clockcounter_list, s) < MaxSame /\ clockcounter_add(s)
    \/ Idle /\ ncalls <= MaxLate /\ \E s \in ClockSources : clockcounter_remove(s)
    \/ ncalls <= MaxLate /\ subsystem_init_list(Main)
    \/ subsystem_init_lock(Main)
    \/ pc[Main] = "init_call" /\ \E s \in ConcSources : clockcounter_add_lock(Main, s)
    \/ clockcounter_add_append(Main)
    \/ clockcounter_add_enable(Main)
    \/ clockcounter_add_unlock(Main)
    \/ (pc[Main] = IDLE => ncalls <= MaxLate) /\ select_test(Main)
    \/ select_disable(Main)
    \/ select_lock(Main)
    \/ select_init(Main)
    \/ select_scan(Main)
    \/ select_unlock(Main)
    \/ select_load(Main)
    \/ select_enable(Main)
    \/ select_return(Main)
    \/ \E d \in HwDeltas : HwAdvance(d)
    \/ Idle /\ \E rok \in FirmwareOutcomes(global_clockcounter),
                  dok \in FirmwareOutcomes(global_clockcounter) :
                  real_wall_time_regular_update(rok, dok)
    \/ Idle /\ \E rok \in FirmwareOutcomes(global_clockcounter),
                  dok \in FirmwareOutcomes(global_clockcounter) :
                  gettimeofday(rok, dok)
    \/ Idle /\ \E rok \in FirmwareOutcomes(global_clockcounter),
                  dok \in FirmwareOutcomes(global_clockcounter) :
                  getnstimeofday(rok, dok)
    \/ Idle /\ \E rok \in FirmwareOutcomes(global_clockcounter),
                  dok \in FirmwareOutcomes(global_clockcounter),
                  unset \in StackSlots(global_clockcounter) :
                  get_now_nanosecond(rok, dok, unset)
    \/ \E rok \in FirmwareOutcomes(global_clockcounter),
                  dok \in FirmwareOutcomes(global_clockcounter) :
           do_time_gettimeofday(Main, rok, dok)
    \/ \E rok \in FirmwareOutcomes(global_clockcounter),
                  dok \in FirmwareOutcomes(global_clockcounter) :
           do_time_getnstimeofday(Main, rok, dok)
    \/ do_time_return(Main)

SpecClock == InitClock /\ [][NextClock]_vars

(* Contexts that call into the module at the same time, after boot:      *)
(* clockcounter_subsystem_init and real_wall_time_init have run.          *)
Booted ==
    LET pm0 == [counter_bits |-> 0, counter_frequency_hz |-> 0,
                counter_resolution_ns |-> 0, counter_fixup_period |-> AbsZero]
        en0 == [s \in Sources |-> FALSE]
        en1 == [en0 EXCEPT ![PMT] = TRUE, ![PMC] = TRUE]
        pm1 == counter_enable_pm(PMC, counter_enable_pm(PMT, pm0))
        list1 == list_append(list_append(<<>>, PMT), PMC)
        r == SelectResult(list1, NULL, pm1, en1)
    IN  [list |-> list1, global |-> r.global, pm |-> r.pm, enabled |-> r.enabled]

(* ... and then clockcounter_remove(&clockcounter_pm_counter) and         *)
(* select_global_clockcounter: the PM timer is the active counter.        *)
BootedPmTimer ==
    LET list1 == list_remove(Booted.list, PMC)
        r == SelectResult(list1, Booted.global, Booted.pm, Booted.enabled)
    IN  [list |-> list1, global |-> r.global, pm |-> r.pm, enabled |-> r.enabled]

InitFrom(b) ==
    \E rtc \in RtcTimes :
        /\ fadt_32bit_timer \in BOOLEAN
        /\ clockcounter_list = b.list
        /\ global_clockcounter = b.global
        /\ clockcounter_pm_timer = b.pm
        /\ counter_latest_read = [s \in Sources |-> TicksZero]
        /\ enabled = b.enabled
        /\ real_wall_time = [tv_sec |-> rtc, tv_nsec |-> 0]
        /\ hw_ticks \in BootTicks
        /\ since_sample = [s \in Sources |-> -1]
        /\ since_good = [s \in Sources |-> -1]
        /\ wall_set = TRUE
        /\ crashed = FALSE
        /\ ret = Plain("real_wall_time_init", NONE, NONE)
        /\ nadv = 0
        /\ ncalls = 0
        /\ clockcounter_list_lock = FREE
        /\ pc = [c \in Contexts |-> IDLE]
        /\ loc = [c \in Contexts |-> NoLocals]

InitConc == InitFrom(Booted)

(* The registry calls of two contexts, a counter registered at most       *)
(* MaxSame times over                                                     *)
NextLock ==
    \/ \E c \in Contexts, s \in ConcSources :
           Occurrences(clockcounter_list, s) < MaxSame /\ clockcounter_add_lock(c, s)
    \/ \E c \in Contexts : clockcounter_add_append(c)
    \/ \E c \in Contexts : clockcounter_add_enable(c)
    \/ \E c \in Contexts : clockcounter_add_unlock(c)
    \/ \E c \in Contexts, s \in ConcSources : clockcounter_remove_lock(c, s)
    \/ \E c \in Contexts : clockcounter_remove_unlink(c)
    \/ \E c \in Contexts : clockcounter_remove_unlock(c)
    \/ \E c \in Contexts : select_test(c)
    \/ \E c \in Contexts : select_disable(c)
    \/ \E c \in Contexts : select_lock(c)
    \/ \E c \in Contexts : select_init(c)
    \/ \E c \in Contexts : select_scan(c)
    \/ \E c \in Contexts : select_unlock(c)
    \/ \E c \in Contexts : select_load(c)
    \/ \E c \in Contexts : select_enable(c)
    \/ \E c \in Contexts : select_return(c)

SpecLock == InitConc /\ [][NextLock]_vars

(* The advancement calls of two contexts over the running counter, the    *)
(* registry as boot left it or the PM timer alone                         *)
InitRace == InitFrom(Booted) \/ InitFrom(BootedPmTimer)

NextRace ==
    \/ \E d \in ConcDeltas : HwAdvance(d)
    \/ \E c \in Contexts, op \in AdvanceOps : advance_begin(c, op)
    \/ \E c \in Contexts : advance_read_last(c)
    \/ \E c \in Contexts : advance_sample(c)
    \/ \E c \in Contexts : advance_store(c)
    \/ \E c \in Contexts : advance_elapsed(c)
    \/ \E c \in Contexts : advance_add_read(c)
    \/ \E c \in Contexts : advance_add_write(c)
    \/ \E c \in Contexts : advance_fill_sec(c)
    \/ \E c \in Contexts : advance_fill_nsec(c)
    \/ \E c \in Contexts : advance_return(c)

SpecRace == InitRace /\ [][NextRace]_vars

(* clockcounter_subsystem_init and select_global_clockcounter in one      *)
(* context, from the state before boot on, while the other registers a    *)
(* counter or makes the advancement calls                                 *)
NextSwitch ==
    \/ subsystem_init_list(Main)
    \/ subsystem_init_lock(Main)
    \/ pc[Main] = "init_call" /\ \E s \in ConcSources : clockcounter_add_lock(Main, s)
    \/ \E c \in Contexts \ {Main}, s \in BootSources : clockcounter_add_lock(c, s)
    \/ \E c \in Contexts : clockcounter_add_append(c)
    \/ \E c \in Contexts : clockcounter_add_enable(c)
    \/ \E c \in Contexts : clockcounter_add_unlock(c)
    \/ select_test(Main)
    \/ select_disable(Main)
    \/ select_lock(Main)
    \/ select_init(Main)
    \/ select_scan(Main)
    \/ select_unlock(Main)
    \/ select_load(Main)
    \/ select_enable(Main)
    \/ select_return(Main)
    \/ \E c \in Contexts \ {Main}, op \in AdvanceOps : advance_begin(c, op)
    \/ \E c \in Contexts : advance_read_last(c)
    \/ \E c \in Contexts : advance_sample(c)
    \/ \E c \in Contexts : advance_store(c)
    \/ \E c \in Contexts : advance_elapsed(c)
    \/ \E c \in Contexts : advance_add_read(c)
    \/ \E c \in Contexts : advance_add_write(c)
    \/ \E c \in Contexts : advance_fill_sec(c)
    \/ \E c \in Contexts : advance_fill_nsec(c)
    \/ \E c \in Contexts : advance_return(c)

SpecSwitch == Init /\ [][NextSwitch]_vars

-----------------------------------------------------------------------------
(* Properties *)

Registered == {clockcounter_list[i] : i \in 1 .. Len(clockcounter_list)}

(* select_global_clockcounter has returned and no call has been made     *)
(* since.                                                                 *)
SelectReturned ==
    Idle /\ ret.op = "select_global_clockcounter" /\ ret.status = OK

(* The ticks of one fixup period *)
FixupTicks == FIXUP_SECONDS * PM_TIMER_FREQUENCY

(* The real duration of d ticks of the PM timer, d * 10^9 / 3600000 ns,   *)
(* rounded down and rounded up (the ratio is 2500/9).                     *)
TrueNsFloor(d) ==
    LET r == d % PM_TIMER_FREQUENCY
        num == NSECS_PER_SEC \div 400000
        den == PM_TIMER_FREQUENCY \div 400000
    IN  Abs(d \div PM_TIMER_FREQUENCY, (r \div den) * num + ((r % den) * num) \div den)

TrueNsCeil(d) ==
    LET r == d % PM_TIMER_FREQUENCY
        num == NSECS_PER_SEC \div 400000
        den == PM_TIMER_FREQUENCY \div 400000
    IN  Abs(d \div PM_TIMER_FREQUENCY,
            (r \div den) * num + ((r % den) * num + den - 1) \div den)

(* C1: in one execution context, once real_wall_time_init has run, no     *)
(* step (advancement call or other) makes the wall clock value            *)
(* tv_sec * 10^9 + tv_nsec smaller, unless it is real_wall_time_init      *)
(* called once more, which sets the clock anew.                           *)
C1_WallClockNeverDecreases ==
    [][(\A rtc \in RtcTimes : ~real_wall_time_init(rtc))
           => AbsLE(WallAbs, WallAbs')]_vars

(* An advancement over a wrap of the counter has added time. *)
C1_Witness ==
    /\ ret.op \in Advancements
    /\ ret.tc = PMT
    /\ ret.rok /\ ret.dok
    /\ ret.gap > 0 /\ ret.gap = ret.good_gap
    /\ clockcounter_pm_timer.counter_bits = 32
    /\ TicksLT(ret.now, ret.last)
    /\ AbsLT(AbsZero, ret.added)

(* C2: right after select_global_clockcounter returns, the active counter *)
(* has a counter_resolution_ns no larger than that of any registered      *)
(* counter.                                                               *)
C2_ActiveHasMinimumResolution ==
    SelectReturned =>
        \A s \in Registered :
            counter_resolution_ns(global_clockcounter, clockcounter_pm_timer)
                <= counter_resolution_ns(s, clockcounter_pm_timer)

(* C3: after every return of select_global_clockcounter exactly one       *)
(* counter is enabled, the active one.                                    *)
C3_ExactlyOneEnabled ==
    SelectReturned => {s \in Sources : enabled[s]} = {global_clockcounter}

(* C4: a second select_global_clockcounter right after one that returned, *)
(* the registry unchanged in between, returns the counter the first       *)
(* returned and leaves it active.                                         *)
C4_SelectIdempotent ==
    [][(/\ ret.op = "select_global_clockcounter" /\ ret.status = OK
        /\ \E c \in Contexts : select_return(c))
           => ret'.val = ret.val /\ global_clockcounter' = ret.val]_vars

(* C5: a time query made while the registry is empty returns ENODEV.      *)
C5_EmptyRegistryGivesENODEV ==
    (ret.op \in Queries /\ clockcounter_list = <<>>) => ret.status = ENODEV

(* C6: an advancement on the PM timer whose counter read fails adds zero  *)
(* nanoseconds, and no advancement adds more than the real time of the    *)
(* ticks since the last successful sample.                                *)
C6_FailedReadAddsNothing ==
    (ret.op \in Advancements /\ ret.tc = PMT /\ ret.good_gap >= 0) =>
        /\ ~ret.rok => ret.added = AbsZero
        /\ AbsLE(ret.added, TrueNsCeil(ret.good_gap))

(* C7: with the PM timer alone registered and active, a getnstimeofday    *)
(* right after a getnstimeofday, the samples D ticks apart (less than a   *)
(* fixup period), returns the first time plus the duration of D, the      *)
(* error no larger than counter_resolution_ns.                            *)
C7_SecondCallAddsDelta ==
    [][(/\ ret.op = "getnstimeofday" /\ ret.status = OK /\ ret.rok /\ ret.dok
        /\ clockcounter_list = <<PMT>> /\ global_clockcounter = PMT
        /\ since_sample[PMT] < FixupTicks
        /\ \E rok \in BOOLEAN, dok \in BOOLEAN : getnstimeofday(rok, dok)
        /\ ret'.rok /\ ret'.dok)
       => LET D == since_sample[PMT]
              first == timespec_to_abstime(ret.val)
              second == timespec_to_abstime(ret'.val)
              tol == Abs(0, clockcounter_pm_timer.counter_resolution_ns)
          IN  /\ AbsLE(AbsAdd(first, TrueNsFloor(D)), AbsAdd(second, tol))
              /\ AbsLE(second, AbsAdd(AbsAdd(first, TrueNsCeil(D)), tol))]_vars

(* C8: two samples of the 24-bit PM timer taken in order, less than a     *)
(* fixup period apart, the counter having wrapped once between them       *)
(* (t2 < t1): the elapsed time is positive and is the duration of         *)
(* (t2 - t1) mod 2^24 ticks, to within one tick.                          *)
C8_WrapElapsedIsTickDuration ==
    (/\ ret.op \in Advancements /\ ret.tc = PMT /\ ret.rok /\ ret.dok
     /\ ret.gap >= 0 /\ ret.gap = ret.good_gap /\ ret.gap < FixupTicks
     /\ ~fadt_32bit_timer
     /\ TicksLT(ret.now, ret.last))
    => LET ticks == TicksMod(TicksSub(ret.now, ret.last)).lo
           tol == Abs(0, clockcounter_pm_timer.counter_resolution_ns)
       IN  /\ ticks = ret.gap
           /\ AbsLT(AbsZero, ret.added)
           /\ AbsLE(TrueNsFloor(ticks), AbsAdd(ret.added, tol))
           /\ AbsLE(ret.added, AbsAdd(TrueNsCeil(ticks), tol))

(* C9: every counter is in the registry list at most once.                *)
C9_RegisteredAtMostOnce ==
    \A s \in Sources : Occurrences(clockcounter_list, s) <= 1

(* C10: a time query gives its caller the wall clock as it is after the   *)
(* call's advancement, or the ENODEV signal; get_now_nanosecond, which    *)
(* has no signal to give, gives the nanosecond count of the wall clock.   *)
C10_QueryGivesWallClockOrSignal ==
    /\ ret.op = "gettimeofday" =>
           \/ ret.status = ENODEV
           \/ ret.val = [tv_sec |-> real_wall_time.tv_sec,
                         tv_usec |-> real_wall_time.tv_nsec \div NSECS_PER_USEC]
    /\ ret.op = "getnstimeofday" =>
           \/ ret.status = ENODEV
           \/ ret.val = real_wall_time
    /\ ret.op = "get_now_nanosecond" => ret.val = WallAbs

(* C14: when select_global_clockcounter returns, the counter_latest_read  *)
(* of the counter it made active is a sample of that counter taken at     *)
(* the handoff.                                                           *)
C14_SelectSeedsLatestRead ==
    [][(\E c \in Contexts : select_return(c))
           => counter_latest_read'[global_clockcounter']
                  = counter_read(global_clockcounter', TRUE)]_vars

(* C15: clockcounter_remove(s) returns OK, takes s and nothing else out   *)
(* of the registry, and changes neither the enabled state of a counter,   *)
(* the active counter, a counter_latest_read nor the wall clock.          *)
C15_RemoveOnlyUnlinks ==
    [][\A s \in Sources :
           clockcounter_remove(s) =>
               /\ ret'.status = OK
               /\ ~InList(clockcounter_list', s)
               /\ \A t \in Sources \ {s} :
                      Occurrences(clockcounter_list', t)
                          = Occurrences(clockcounter_list, t)
               /\ Len(clockcounter_list')
                      = Len(clockcounter_list) - Occurrences(clockcounter_list, s)
               /\ enabled' = enabled
               /\ global_clockcounter' = global_clockcounter
               /\ clockcounter_pm_timer' = clockcounter_pm_timer
               /\ counter_latest_read' = counter_latest_read
               /\ real_wall_time' = real_wall_time]_vars

(* The active, enabled counter has been taken out of the registry. *)
C15_Witness ==
    /\ ret.op = "clockcounter_remove" /\ ret.status = OK
    /\ ret.val = global_clockcounter
    /\ enabled[global_clockcounter]
    /\ ~InList(clockcounter_list, global_clockcounter)
    /\ clockcounter_list # <<>>

(* The counter found first among those of the smallest resolution: the    *)
(* PM timer, where the scan starts, or else the earliest in the list.     *)
FirstFound(list, pm) ==
    LET res(s) == counter_resolution_ns(s, pm)
        cands == {PMT} \cup {list[i] : i \in 1 .. Len(list)}
        m == CHOOSE r \in {res(s) : s \in cands} :
                 \A s \in cands : r <= res(s)
    IN  IF res(PMT) = m THEN PMT
        ELSE list[CHOOSE i \in 1 .. Len(list) :
                      /\ res(list[i]) = m
                      /\ \A j \in 1 .. (i - 1) : res(list[j]) # m]

(* C16: select_global_clockcounter makes active the first found of the    *)
(* counters of the smallest resolution: the PM timer if it is one of      *)
(* them, the earliest registered otherwise. The resolutions are those     *)
(* the scan has seen; the scan done, the winner stays active to the       *)
(* return.                                                                *)
C16_TieGoesToFirstFound ==
    [][/\ (\E c \in Contexts : select_unlock(c))
           => global_clockcounter
                  = FirstFound(clockcounter_list, clockcounter_pm_timer)
       /\ (\E c \in Contexts : pc[c] \in {"select_load", "select_enable",
                                           "select_return"})
           => global_clockcounter' = global_clockcounter]_vars

(* Two counters of resolution 100 registered after the enabled PM timer:  *)
(* the earlier of the two is active.                                      *)
C16_Witness ==
    /\ SelectReturned
    /\ clockcounter_list = <<PMT, PMC, "T100">>
    /\ clockcounter_pm_timer.counter_resolution_ns > StaticResolution(PMC)
    /\ global_clockcounter = PMC

(* C17: select_global_clockcounter returns, with the winner active,       *)
(* whatever operations the registered counters lack.                      *)
C17_SelectAlwaysCompletes ==
    /\ ~crashed
    /\ (Idle /\ ret.op = "select_global_clockcounter")
           => ret.status = OK /\ ret.val = global_clockcounter

(* A call that advanced the wall clock on the PM timer, both firmware     *)
(* calls succeeding, its two samples taken in order, gap ticks apart.     *)
GoodAdvancement(r) ==
    /\ r.op \in Advancements /\ r.tc = PMT /\ r.rok /\ r.dok
    /\ r.gap >= 0 /\ r.gap = r.good_gap
    /\ TicksMod(TicksSub(r.now, r.last)) = Ticks(0, r.gap)

(* C18: two advancement calls on the PM timer one right after the other,  *)
(* their samples s0, s1, s2 in order within one wrap period, add          *)
(* together what pm_timer_counter_time_elapsed(s0, s2) gives.             *)
C18_AccumulationAdditive ==
    [][(/\ GoodAdvancement(ret)
        /\ ncalls' = ncalls + 1
        /\ GoodAdvancement(ret')
        /\ ret'.last = ret.now
        /\ TicksLT(Ticks(0, ret.gap + ret'.gap), CounterWrap))
       => AbsAdd(ret.added, ret'.added)
              = pm_timer_counter_time_elapsed(ret.last, ret'.now, TRUE)]_vars

(* time_us microseconds as nanoseconds, no width limit *)
MicrosecondsAsNs(time_us) ==
    Abs(time_us \div USECS_PER_SEC, (time_us % USECS_PER_SEC) * NSECS_PER_USEC)

(* C19 as stated: for two samples up to a wrap period apart, the call     *)
(* adds exactly time_us * 1000 ns, time_us the microseconds between them. *)
C19_NoOverflowWithinWrap ==
    GoodAdvancement(ret)
        => ret.added = MicrosecondsAsNs(AcpiGetTimerDuration(ret.last, ret.now))

(* C19: for two samples so far apart that time_us * 1000 is less than    *)
(* 2^32 (time_us <= 4,294,967, up to 15,461,884 ticks), with the counter  *)
(* 24 or 32 bits wide, the call adds exactly time_us * 1000 ns.           *)
C19_NoOverflowWhileProductFits ==
    LET time_us == AcpiGetTimerDuration(ret.last, ret.now)
    IN  (GoodAdvancement(ret)
         /\ AbsLT(MicrosecondsAsNs(time_us), TwoTo32Times(1)))
            => ret.added = MicrosecondsAsNs(time_us)

(* Two samples of the 32-bit timer more than a fixup period apart, the    *)
(* product still within 32 bits.                                          *)
C19_Witness ==
    /\ GoodAdvancement(ret)
    /\ clockcounter_pm_timer.counter_bits = 32
    /\ ret.gap > FixupTicks
    /\ AbsLT(Abs(FIXUP_SECONDS, 0), ret.added)
    /\ ret.added = MicrosecondsAsNs(AcpiGetTimerDuration(ret.last, ret.now))

(* C20: the active counter, once there is one, is in the registry.        *)
C20_ActiveIsRegistered ==
    (Idle /\ global_clockcounter # NULL)
        => InList(clockcounter_list, global_clockcounter)

(* Where a context is between its read of counter_latest_read and the end *)
(* of its addition to the wall clock                                      *)
InAdvancement == {"advance_sample", "advance_store", "advance_elapsed",
                  "advance_add_read", "advance_add_write"}

(* C11: the read of counter_latest_read, the store of the fresh sample    *)
(* and the addition to the wall clock of one advancement call are not     *)
(* interleaved with those of a call in another context.                   *)
C11_AdvancementSerialized ==
    Cardinality({c \in Contexts : pc[c] \in InAdvancement}) <= 1

(* Where a context is between spinlock_lock and spinlock_unlock *)
InsideLock == {"add_append", "add_enable", "add_unlock", "remove_unlink",
               "remove_unlock", "select_init", "select_scan"}

(* C12: at most one context is between the lock and the unlock of         *)
(* clockcounter_add, clockcounter_remove and select_global_clockcounter,  *)
(* that context and no other holds the lock (none holds it once its call  *)
(* has returned), and the registry stays as it was when the scan began    *)
(* for as long as the scan runs.                                          *)
C12_RegistrySerialized ==
    /\ Cardinality({c \in Contexts : pc[c] \in InsideLock}) <= 1
    /\ \A c \in Contexts : pc[c] \in InsideLock <=> clockcounter_list_lock = c
    /\ \A c \in Contexts :
           pc[c] = "select_scan" => clockcounter_list = loc[c].snap

(* One context is in the middle of the scan, the other spins on the lock  *)
(* in its own select.                                                     *)
C12_Witness ==
    \E c \in Contexts, d \in Contexts :
        /\ pc[c] = "select_scan" /\ loc[c].iter = 2
        /\ pc[d] = "select_lock"
        /\ clockcounter_list_lock = c

(* C13: the counter an advancement samples was either the active one      *)
(* before a select running in another context or is the winner of that    *)
(* select, and it is enabled when it is sampled.                          *)
C13_NoHalfSwitchedSource ==
    \A c \in Contexts :
        pc[c] \in {"advance_store", "advance_elapsed", "advance_add_read",
                   "advance_add_write", "advance_fill", "advance_return"}
            => loc[c].en /\ ~loc[c].half

=============================================================================
